---- MODULE Spec2Model ----
(***************************************************************************)
(* A model of src/processes/method.py: the caption decoder                 *)
(* (_decode_outputs), the training loop (_do_training) and the evaluation  *)
(* pass (_do_evaluation).                                                  *)
(***************************************************************************)
EXTENDS Integers, Sequences, FiniteSets, TLC

VARIABLES
    \* _decode_outputs
    d_pc,               \* "loop", "returned" or "raised" (ValueError)
    gt_words,           \* loop variable: ground truth of the current item
    b_predictions,      \* loop variable: prediction of the current item
    f_name,             \* loop variable: file of the current item
    caption_log,        \* what caption_logger was given, one entry per item
    captions_pred,      \* List[Dict]
    captions_gt,        \* List[Dict]
    f_names,            \* List[str]
    \* _do_training
    t_pc,               \* "loop", "returned" or "raised"
    settings,           \* settings['training']
    epoch,              \* loop variable; -1 before the first epoch
    prv_training_loss,
    patience_counter,
    best_epoch,
    training_loss,      \* mean loss of the last pass
    model,              \* the parameter state of the model
    optimizer,          \* the state of the optimizer
    model_dir,          \* the checkpoint files: path -> content
    epoch_output,       \* output_y_hat, output_y, f_names of the last pass
    sampling_indices,
    decoded,            \* the items the last periodic decode was given
    stop_notices,       \* the epochs that logged 'Training stops.'
    state_log,          \* the parameter state at the end of each pass
    decode_epochs,      \* the epochs that called _decode_outputs
    \* _do_evaluation
    evaluation_outputs, \* what the inference pass returns, in loader order
    dir_listing,        \* list(data_path_evaluation.iterdir()), last call
    eval_results,       \* what each call so far decoded
    mode,               \* model.training: "train" or "eval"
    runner_calls,       \* the calls of module_epoch_passing by _do_evaluation
    decoder_calls       \* the calls of _decode_outputs by _do_evaluation

decode_vars == <<d_pc, gt_words, b_predictions, f_name, caption_log,
                 captions_pred, captions_gt, f_names>>
train_vars == <<t_pc, settings, epoch, prv_training_loss, patience_counter,
                best_epoch, training_loss, model, optimizer, model_dir,
                epoch_output, sampling_indices, decoded, stop_notices,
                state_log, decode_epochs>>
eval_vars == <<evaluation_outputs, dir_listing, eval_results, mode,
               runner_calls, decoder_calls>>
vars == <<decode_vars, train_vars, eval_vars>>

(***************************************************************************)
(* Bounds of the model.                                                    *)
(***************************************************************************)
\* longest token sequence (ground truth or prediction) of one decoded item
MaxLen == 2
\* most items one _decode_outputs call of the decoder specification receives
MaxItems == 3
\* largest nb_epochs
MaxEpochs == 4
\* most outputs of one pass over the training data or the evaluation data
MaxOutputs == 2
\* most calls of _do_evaluation on one model and one evaluation set
MaxRuns == 2

(***************************************************************************)
(* Generic helpers.                                                        *)
(***************************************************************************)
Range(s) == {s[i] : i \in 1..Len(s)}

SeqsUpTo(S, n) == UNION {[1..k -> S] : k \in 0..n}

\* list.index(x): the position of the first x in s (1-based), 0 when the
\* code raises ValueError
FirstIndex(s, x) ==
    IF x \in Range(s)
    THEN CHOOSE i \in 1..Len(s) : s[i] = x /\ \A j \in 1..(i-1) : s[j] # x
    ELSE 0

(***************************************************************************)
(* The caption decoder: _decode_outputs.                                   *)
(***************************************************************************)
\* indices_object: the vocabulary, addressed by 0-based class id
IndicesObject == <<"w", "<eos>">>
\* eos_token
EosToken == "<eos>"
ClassIds == 0..(Len(IndicesObject) - 1)

\* One time step of b_predictions: the scores of the classes. The rows the
\* model feeds in: each class winning once.
Rows == {<<1, 0>>, <<0, 1>>}

\* softmax(b_predictions, dim=-1).argmax(1) on one time step: softmax is
\* increasing, so the class id of the (first) largest score
ArgMax(row) ==
    (CHOOSE i \in 1..Len(row) :
        /\ \A j \in 1..Len(row) : row[j] <= row[i]
        /\ \A j \in 1..(i-1) : row[j] < row[i]) - 1

\* predicted_words
PredictedWords(b_pred) ==
    [t \in 1..Len(b_pred) |-> ArgMax(b_pred[t])]

\* [indices_object[i.item()] for i in ...]
ToWords(ids) == [t \in 1..Len(ids) |-> IndicesObject[ids[t] + 1]]

\* ' '.join(words): the words with one separator between neighbours
Join(words) ==
    IF Len(words) = 0 THEN <<>>
    ELSE [i \in 1..(2 * Len(words) - 1) |->
            IF i % 2 = 1 THEN words[(i + 1) \div 2] ELSE " "]

\* the mutant of UpToEos: the slice takes the end-of-sequence token too
UpToEosInclusive(words) == SubSeq(words, 1, FirstIndex(words, EosToken))

\* words[:words.index(eos_token)], for a list that holds eos_token
UpToEos(words) == SubSeq(words, 1, FirstIndex(words, EosToken) - 1)

\* the mutant of GtRaises: the lookup failure is swallowed, as the
\* prediction's is
GtNeverRaises(gt_w) == FALSE

\* gt_caption = gt_caption[:gt_caption.index(eos_token)] raises ValueError
GtRaises(gt_w) == EosToken \notin Range(ToWords(gt_w))

\* gt_caption, joined
GtCaption(gt_w) == Join(UpToEos(ToWords(gt_w)))

\* predicted_caption, joined: truncated in the try block, kept whole when
\* index() raises ValueError
PredictedCaption(b_pred) ==
    LET words == ToWords(PredictedWords(b_pred))
    IN  Join(IF EosToken \in Range(words) THEN UpToEos(words) ELSE words)

\* pathlib's stem of a file name (a sequence of characters): the name
\* without its last suffix
Stem(name) ==
    LET dots == {i \in 1..Len(name) : name[i] = "."}
        last == IF dots = {} THEN 0
                ELSE CHOOSE i \in dots : \A j \in dots : j <= i
    IN  IF 1 < last /\ last < Len(name) THEN SubSeq(name, 1, last - 1)
        ELSE name

\* stem.split('.')[0]
SplitFirst(stem) ==
    LET p == FirstIndex(stem, ".")
    IN  IF p = 0 THEN stem ELSE SubSeq(stem, 1, p - 1)

\* f_n = f_name.stem.split('.')[0]
FileKey(name) == SplitFirst(Stem(name))

\* the keys of a ground-truth record that start with 'caption_'
CaptionKeys(d) == {k \in DOMAIN d : k[1] = "caption_"}

\* the mutant of NextCaptionNumber: the count is not advanced
SameCaptionNumber(d) == Cardinality(CaptionKeys(d))

\* len_captions of line 94
NextCaptionNumber(d) == Cardinality(CaptionKeys(d)) + 1

\* d.update({key: value})
Update(d, key, value) ==
    [k \in DOMAIN d \cup {key} |-> IF k = key THEN value ELSE d[k]]

\* the record of captions_gt the else branch updates: the first one whose
\* file_name is the key
FirstRecordOf(gt, key) ==
    CHOOSE i \in 1..Len(gt) :
        /\ gt[i][<<"file_name">>] = key
        /\ \A j \in 1..(i-1) : gt[j][<<"file_name">>] # key

\* the mutant of DecodeItem: a repeated file key replaces the predicted
\* caption of its record
DecodeItemReplacing(pred, gt, names, gt_w, b_pred, name) ==
    LET p_caption == PredictedCaption(b_pred)
        g_caption == GtCaption(gt_w)
        key == FileKey(name)
    IN  IF GtRaises(gt_w)
        THEN [raised |-> TRUE, captions_pred |-> pred, captions_gt |-> gt,
              f_names |-> names]
        ELSE IF key \notin Range(names)
        THEN [raised |-> FALSE,
              captions_pred |-> Append(pred,
                  [file_name |-> key, caption_predicted |-> p_caption]),
              captions_gt |-> Append(gt,
                  (<<"file_name">> :> key) @@ (<<"caption_", 1>> :> g_caption)),
              f_names |-> Append(names, key)]
        ELSE LET d_i == FirstRecordOf(gt, key)
                 d == gt[d_i]
                 len_captions == NextCaptionNumber(d)
             IN  [raised |-> FALSE,
                  captions_pred |-> [pred EXCEPT ![d_i] =
                      [file_name |-> key, caption_predicted |-> p_caption]],
                  captions_gt |-> [gt EXCEPT ![d_i] =
                      Update(d, <<"caption_", len_captions>>, g_caption)],
                  f_names |-> names]

\* One pass of the for loop over zip(ground_truth_outputs,
\* predicted_outputs, file_names), from the lists built so far. The result:
\* the three lists, and whether line 72 raised.
DecodeItem(pred, gt, names, gt_w, b_pred, name) ==
    LET p_caption == PredictedCaption(b_pred)
        g_caption == GtCaption(gt_w)
        key == FileKey(name)
    IN  IF GtRaises(gt_w)
        THEN [raised |-> TRUE, captions_pred |-> pred, captions_gt |-> gt,
              f_names |-> names]
        ELSE IF key \notin Range(names)
        THEN [raised |-> FALSE,
              captions_pred |-> Append(pred,
                  [file_name |-> key, caption_predicted |-> p_caption]),
              captions_gt |-> Append(gt,
                  (<<"file_name">> :> key) @@ (<<"caption_", 1>> :> g_caption)),
              f_names |-> Append(names, key)]
        ELSE LET d_i == FirstRecordOf(gt, key)
                 d == gt[d_i]
                 len_captions == NextCaptionNumber(d)
             IN  [raised |-> FALSE,
                  captions_pred |-> pred,
                  captions_gt |-> [gt EXCEPT ![d_i] =
                      Update(d, <<"caption_", len_captions>>, g_caption)],
                  f_names |-> names]

\* log_strings of lines 99-101, as caption_logger receives them
LogStrings(name, b_pred, gt_w) ==
    [stem |-> Stem(name),
     predicted |-> PredictedCaption(b_pred),
     original |-> GtCaption(gt_w)]

\* _decode_outputs on the items (y_hat, y, f_name) from position i on
RECURSIVE DecodeFrom(_, _, _)
DecodeFrom(acc, items, i) ==
    IF acc.raised \/ i > Len(items) THEN acc
    ELSE DecodeFrom(DecodeItem(acc.captions_pred, acc.captions_gt, acc.f_names,
                               items[i].y, items[i].y_hat, items[i].f_name),
                    items, i + 1)

\* _decode_outputs(predicted_outputs, ground_truth_outputs, file_names) on
\* the zipped items: the two lists, or raised
DecodeOutputs(items) ==
    DecodeFrom([raised |-> FALSE, captions_pred |-> <<>>,
                captions_gt |-> <<>>, f_names |-> <<>>], items, 1)

(***************************************************************************)
(* The training loop: _do_training.                                        *)
(***************************************************************************)
\* A loss or a threshold is a Python float: Num(u, c) is the double the
\* decimal literal u + c/100 denotes (the double nearest to it), NaN the
\* float nan.
Num(u, c) == [nan |-> FALSE, u |-> u, c |-> c]
NaN == [nan |-> TRUE, u |-> 0, c |-> 0]

\* prv_training_loss = 1e8
PrvInit == Num(100000000, 0)

\* the mean losses a pass may produce: 1.0 - 0.5 is the threshold 0.5
\* exactly; 1.01 - 1.0 is, rounded, above the threshold 0.01
Losses == {Num(1, 1), Num(1, 0), Num(0, 50), NaN}

\* settings['training']['loss_thr']
LossThrs == {Num(0, 1), Num(0, 50)}

\* The epoch losses of the two scenarios of the specification, the second
\* continuing the first.
ScenarioLosses ==
    <<Num(10, 0), Num(9, 50), Num(9, 48), Num(9, 47),
      Num(9, 47), Num(9, 47), Num(9, 47)>>


\* The value of a double is held exactly, as a whole number of units of
\* 2^-(FracBits): a sequence of Limbs digits of base Base, the least
\* significant first.
Base == 32768
BaseBits == 15
Limbs == 8
ScaleLimbs == 5
FracBits == ScaleLimbs * BaseBits + 1
\* the significand of a double
Precision == 53

Pow2(k) == IF k = 0 THEN 1 ELSE [i \in 0..14 |->
    CASE i = 0 -> 1 [] i = 1 -> 2 [] i = 2 -> 4 [] i = 3 -> 8 [] i = 4 -> 16
      [] i = 5 -> 32 [] i = 6 -> 64 [] i = 7 -> 128 [] i = 8 -> 256
      [] i = 9 -> 512 [] i = 10 -> 1024 [] i = 11 -> 2048 [] i = 12 -> 4096
      [] i = 13 -> 8192 [] i = 14 -> 16384][k]

Zero == [i \in 1..Limbs |-> 0]
\* a whole number below 2^31
FromInt(n) ==
    [i \in 1..Limbs |->
        CASE i = 1 -> n % Base
          [] i = 2 -> (n \div Base) % Base
          [] i = 3 -> n \div (Base * Base)
          [] OTHER -> 0]

\* x * k for a small k
RECURSIVE MulSmallFrom(_, _, _, _)
MulSmallFrom(x, k, i, carry) ==
    IF i > Len(x) THEN <<>>
    ELSE LET t == x[i] * k + carry
         IN  <<t % Base>> \o MulSmallFrom(x, k, i + 1, t \div Base)
MulSmall(x, k) == MulSmallFrom(x, k, 1, 0)

\* x \div d and x % d for a small d
\* the remainder that reaches the digit i from the digits above it
RECURSIVE RemAbove(_, _, _)
RemAbove(x, d, i) ==
    IF i = Len(x) THEN 0 ELSE (RemAbove(x, d, i + 1) * Base + x[i + 1]) % d
DivSmall(x, d) ==
    [i \in 1..Len(x) |-> (RemAbove(x, d, i) * Base + x[i]) \div d]
ModSmall(x, d) == (RemAbove(x, d, 1) * Base + x[1]) % d

\* x + y and, for x >= y, x - y
RECURSIVE AddFrom(_, _, _, _)
AddFrom(x, y, i, carry) ==
    IF i > Len(x) THEN <<>>
    ELSE LET t == x[i] + y[i] + carry
         IN  <<t % Base>> \o AddFrom(x, y, i + 1, t \div Base)
Add(x, y) == AddFrom(x, y, 1, 0)
RECURSIVE SubFrom(_, _, _, _)
SubFrom(x, y, i, borrow) ==
    IF i > Len(x) THEN <<>>
    ELSE LET t == x[i] - y[i] - borrow
         IN  <<IF t < 0 THEN t + Base ELSE t>>
                \o SubFrom(x, y, i + 1, IF t < 0 THEN 1 ELSE 0)
Sub(x, y) == SubFrom(x, y, 1, 0)

\* x < y
Less(x, y) ==
    \E i \in 1..Len(x) :
        x[i] < y[i] /\ \A j \in (i + 1)..Len(x) : x[j] = y[j]

\* x * 2^k and x \div 2^k
ShiftLimbsLeft(x, n) == [i \in 1..Len(x) |-> IF i > n THEN x[i - n] ELSE 0]
ShiftLimbsRight(x, n) ==
    [i \in 1..Len(x) |-> IF i + n <= Len(x) THEN x[i + n] ELSE 0]
ShiftLeft(x, k) ==
    MulSmall(ShiftLimbsLeft(x, k \div BaseBits), Pow2(k % BaseBits))
ShiftRight(x, k) ==
    DivSmall(ShiftLimbsRight(x, k \div BaseBits), Pow2(k % BaseBits))

\* the number of binary digits of x
BitLength(x) ==
    IF x = Zero THEN 0
    ELSE LET top == CHOOSE i \in 1..Len(x) :
                        x[i] # 0 /\ \A j \in (i + 1)..Len(x) : x[j] = 0
             bits == CHOOSE b \in 1..BaseBits :
                        Pow2(b - 1) <= x[top]
                            /\ (b = BaseBits \/ x[top] < Pow2(b))
         IN  BaseBits * (top - 1) + bits

\* the rounding of every double operation: x to Precision significant binary
\* digits, to the nearest, ties to the even significand
RoundToDouble(x) ==
    LET drop == BitLength(x) - Precision
    IN  IF drop <= 0 THEN x
        ELSE LET q == ShiftRight(x, drop)
                 rem == Sub(x, ShiftLeft(q, drop))
                 half == ShiftLeft(FromInt(1), drop - 1)
                 up == Less(half, rem) \/ (rem = half /\ q[1] % 2 = 1)
             IN  ShiftLeft(IF up THEN Add(q, FromInt(1)) ELSE q, drop)

\* The double a decimal literal u + c/100 denotes: the quotient
\* (100 u + c) * 2^(FracBits - 1) / 100 with one more digit that tells
\* whether the division left a remainder, rounded.
DoubleValue(x) ==
    LET n == Add(MulSmall(FromInt(x.u), 100), FromInt(x.c))
        scaled == ShiftLimbsLeft(n, ScaleLimbs)
        sticky == IF ModSmall(scaled, 100) # 0 THEN 1 ELSE 0
    IN  RoundToDouble(Add(MulSmall(DivSmall(scaled, 100), 2), FromInt(sticky)))

\* a - b of two floats: the exact difference, rounded; nan when either is
Difference(a, b) ==
    IF a.nan \/ b.nan THEN [nan |-> TRUE, neg |-> FALSE, mag |-> Zero]
    ELSE LET x == DoubleValue(a)
             y == DoubleValue(b)
         IN  IF Less(x, y)
             THEN [nan |-> FALSE, neg |-> TRUE, mag |-> RoundToDouble(Sub(y, x))]
             ELSE [nan |-> FALSE, neg |-> FALSE, mag |-> RoundToDouble(Sub(x, y))]

\* The floats the specifications feed in, with their values and differences
\* worked out once; any other float is worked out where it is used.
Literals ==
    Losses \cup Range(ScenarioLosses) \cup LossThrs \cup {PrvInit, Num(0, 0)}
DoubleOf == {<<x, DoubleValue(x)>> : x \in Literals \ {NaN}}
DifferenceOf == {<<a, b, Difference(a, b)>> : a \in Literals, b \in Literals}

Double(x) ==
    IF x \in Literals \ {NaN}
    THEN (CHOOSE p \in DoubleOf : p[1] = x)[2]
    ELSE DoubleValue(x)

\* prv_training_loss - training_loss
Minus(a, b) ==
    IF a \in Literals /\ b \in Literals
    THEN (CHOOSE p \in DifferenceOf : p[1] = a /\ p[2] = b)[3]
    ELSE Difference(a, b)

\* d > b, d a difference and b a float that is not negative; false when
\* either is nan
Greater(d, b) ==
    /\ ~d.nan /\ ~b.nan
    /\ ~d.neg
    /\ Less(Double(b), d.mag)

\* the mutant of Improvement: a difference equal to the threshold counts
ImprovementOrEqual(prv, loss, thr) ==
    \/ Greater(Minus(prv, loss), thr)
    \/ (~loss.nan /\ Minus(prv, loss) =
            [nan |-> FALSE, neg |-> FALSE, mag |-> Double(thr)])

\* the mutant of Improvement: any decrease of the loss counts
ImprovementAnyDecrease(prv, loss, thr) ==
    Greater(Minus(prv, loss), Num(0, 0))

\* line 260: prv_training_loss - training_loss > loss_thr
Improvement(prv, loss, thr) == Greater(Minus(prv, loss), thr)

\* A parameter state: the one a pass of this run produced (ver passes after
\* entry), one an earlier run left in a file, or no file.
State(k) == [run |-> "this", ver |-> k]
Earlier == [run |-> "earlier", ver |-> 0]
Absent == [run |-> "none", ver |-> 0]

\* module_epoch_passing with an objective and an optimizer: the pass updates
\* the parameters (and the optimizer's state)
TrainingPass(state) == State(state.ver + 1)

\* f'epoch_{best_epoch:05d}_{model_file_name}' and f'latest{save_str}_...'
EpochFile(n) == <<"epoch_", n>>
LatestFile(save_str) == <<"latest", save_str>>
Paths == {EpochFile(n) : n \in 0..(MaxEpochs - 1)}
            \cup {LatestFile(""), LatestFile("_optimizer")}

\* pt_save(state, path)
PtSave(dir, path, state) == [dir EXCEPT ![path] = state]

\* the mutant of SaveEpoch: the file is tagged with the previous best epoch
SaveEpochOldTag(dir, old_best, e, state) == PtSave(dir, EpochFile(old_best), state)

\* line 268, best_epoch being e
SaveEpoch(dir, old_best, e, state) == PtSave(dir, EpochFile(e), state)

\* the mutant of SaveLatest: the optimizer's file is not written
SaveLatestModelOnly(dir, m, o) == PtSave(dir, LatestFile(""), m)

\* lines 279-280
SaveLatest(dir, m, o) ==
    PtSave(PtSave(dir, LatestFile(""), m), LatestFile("_optimizer"), o)

\* sorted(): the elements of a sequence of distinct numbers, increasing
Sorted(s) ==
    CHOOSE t \in [1..Len(s) -> Range(s)] :
        /\ Range(t) = Range(s)
        /\ \A i \in 1..(Len(s) - 1) : t[i] < t[i + 1]

\* randperm(n): the orders of 0..n-1
RandPerm(n) ==
    {q \in [1..n -> 0..(n - 1)] : \A i, j \in 1..n : q[i] = q[j] => i = j}

\* lines 247-249: sorted(randperm(n)[:nb].tolist())
SamplingIndices(n, nb) ==
    {Sorted(SubSeq(q, 1, IF nb < n THEN nb ELSE n)) : q \in RandPerm(n)}

\* The training data: the i-th output of a pass comes from the file
\* <letter i>.0.n; the caption of output 1 is not closed by the
\* end-of-sequence class, the others are.
Letters == <<"a", "b", "c", "d">>
Example(i) ==
    [y_hat |-> << <<1, 0>>, <<0, 1>> >>,
     y |-> IF i = 1 THEN <<0>> ELSE <<0, 1>>,
     f_name |-> <<Letters[i + 1], ".", "0", ".", "n">>]
\* what one pass returns: 1 to MaxOutputs outputs
EpochOutputs == {[i \in 1..n |-> Example(i - 1)] : n \in 1..MaxOutputs}


\* settings['training']
Patiences == {1, 2}
TextOutputEvery == {1, 2}
NbExamplesToSample == {1, 2}
Settings ==
    [nb_epochs : 0..MaxEpochs, patience : Patiences, loss_thr : LossThrs,
     text_output_every_nb_epochs : TextOutputEvery,
     nb_examples_to_sample : NbExamplesToSample]

\* model_dir on entry (mkdir(exist_ok=True)): empty, or holding the files an
\* earlier run wrote under the same names
EmptyDir == [path \in Paths |-> Absent]
EarlierRunDir == [path \in Paths |-> Earlier]

\* lines 191-220
TrainInit ==
    /\ t_pc = "loop"
    /\ settings \in Settings
    /\ epoch = -1
    /\ prv_training_loss = PrvInit
    /\ patience_counter = 0
    /\ best_epoch = 0
    /\ training_loss = NaN
    /\ model = State(0)
    /\ optimizer = State(0)
    /\ model_dir \in {EmptyDir, EarlierRunDir}
    /\ epoch_output = <<>>
    /\ sampling_indices = <<>>
    /\ decoded = <<>>
    /\ stop_notices = <<>>
    /\ state_log = <<>>
    /\ decode_epochs = <<>>

\* the mutant of SampledItems: the file names are taken from the front of
\* f_names, not from the sampled positions
SampledItemsFirstNames(out, idx) ==
    [i \in 1..Len(idx) |->
        [y_hat |-> out[idx[i] + 1].y_hat, y |-> out[idx[i] + 1].y,
         f_name |-> out[i].f_name]]

\* lines 252-255: output_y_hat[i], output_y[i] and f_names[i] for i in
\* sampling_indices
SampledItems(out, idx) ==
    [i \in 1..Len(idx) |->
        [y_hat |-> out[idx[i] + 1].y_hat, y |-> out[idx[i] + 1].y,
         f_name |-> out[idx[i] + 1].f_name]]

\* line 244, for the epoch e
DecodesIn(e) == (e + 1) % settings.text_output_every_nb_epochs = 0

\* One pass of the epoch loop, lines 221-286, the pass having produced the
\* mean loss and the outputs, and randperm the indices idx.
EpochBody(loss, out, idx) ==
    LET e == epoch + 1
        model1 == TrainingPass(model)
        optimizer1 == TrainingPass(optimizer)
        items == SampledItems(out, idx)
        raised == DecodesIn(e) /\ DecodeOutputs(items).raised
        improved == Improvement(prv_training_loss, loss, settings.loss_thr)
        counter1 == IF improved THEN 0 ELSE patience_counter + 1
        dir1 == IF improved THEN SaveEpoch(model_dir, best_epoch, e, model1)
                ELSE model_dir
    IN  /\ epoch' = e
        /\ model' = model1
        /\ optimizer' = optimizer1
        /\ state_log' = Append(state_log, model1)
        /\ epoch_output' = out
        /\ training_loss' = loss
        /\ sampling_indices' = IF DecodesIn(e) THEN idx ELSE sampling_indices
        /\ decoded' = IF DecodesIn(e) THEN items ELSE decoded
        /\ decode_epochs' = IF DecodesIn(e) THEN Append(decode_epochs, e)
                            ELSE decode_epochs
        /\ IF raised
           THEN /\ t_pc' = "raised"
                /\ UNCHANGED <<prv_training_loss, patience_counter, best_epoch,
                               model_dir, stop_notices>>
           ELSE /\ t_pc' = "loop"
                /\ prv_training_loss' = IF improved THEN loss
                                        ELSE prv_training_loss
                /\ best_epoch' = IF improved THEN e ELSE best_epoch
                /\ patience_counter' = counter1
                /\ model_dir' = SaveLatest(dir1, model1, optimizer1)
                /\ stop_notices' = IF counter1 >= settings.patience
                                   THEN Append(stop_notices, e)
                                   ELSE stop_notices
    /\ UNCHANGED settings

\* the indices the epoch e may sample from the outputs
IndicesFor(e, out) ==
    IF DecodesIn(e)
    THEN SamplingIndices(Len(out), settings.nb_examples_to_sample)
    ELSE {sampling_indices}

\* the for loop of line 221, on any loss and outputs of the pass
TrainEpoch ==
    /\ t_pc = "loop"
    /\ epoch + 1 < settings.nb_epochs
    /\ \E loss \in Losses, out \in EpochOutputs :
         \E idx \in IndicesFor(epoch + 1, out) : EpochBody(loss, out, idx)

\* pt_load of line 292
LoadedState(dir, best) == dir[EpochFile(best)]

\* lines 288-292: the range is exhausted; load the best model
TrainingDone ==
    /\ t_pc = "loop"
    /\ epoch + 1 >= settings.nb_epochs
    /\ LET loaded == LoadedState(model_dir, best_epoch)
       IN  IF loaded = Absent
           THEN t_pc' = "raised" /\ model' = model
           ELSE t_pc' = "returned" /\ model' = loaded
    /\ UNCHANGED <<settings, epoch, prv_training_loss, patience_counter,
                   best_epoch, training_loss, optimizer, model_dir,
                   epoch_output, sampling_indices, decoded, stop_notices,
                   state_log, decode_epochs>>

\* The inputs of the one-item specification: every tensor up to MaxLen.
GroundTruths == SeqsUpTo(ClassIds, MaxLen)
Predictions == SeqsUpTo(Rows, MaxLen)
\* The inputs of the loop specification: captions of words closed by the
\* end-of-sequence class, and captions that are not closed.
Words(k) == [t \in 1..k |-> 0]
WordRows(k) == [t \in 1..k |-> <<1, 0>>]
LoopGroundTruths ==
    {Append(Words(k), 1) : k \in 0..(MaxLen - 1)} \cup {Words(1)}
LoopPredictions ==
    {Append(WordRows(MaxLen - 1), <<0, 1>>), WordRows(MaxLen)}
\* file names, as character sequences: a.0.n, a.1.n, b.0.n
FileNames == { <<"a", ".", "0", ".", "n">>,
               <<"a", ".", "1", ".", "n">>,
               <<"b", ".", "0", ".", "n">> }

\* Tensors and paths are kept in the state by the one-item specification
\* only; the loop specification keeps what is logged of them.
NotKept == <<"-">>

\* the training loop, not running
TrainIdle ==
    /\ t_pc = "idle"
    /\ settings = <<>>
    /\ epoch = -1
    /\ prv_training_loss = PrvInit
    /\ patience_counter = 0
    /\ best_epoch = 0
    /\ training_loss = NaN
    /\ model = State(0)
    /\ optimizer = State(0)
    /\ model_dir = EmptyDir
    /\ epoch_output = <<>>
    /\ sampling_indices = <<>>
    /\ decoded = <<>>
    /\ stop_notices = <<>>
    /\ state_log = <<>>
    /\ decode_epochs = <<>>

\* the evaluation, not running
EvalIdle ==
    /\ evaluation_outputs = <<>>
    /\ dir_listing = <<>>
    /\ eval_results = <<>>
    /\ mode = "train"
    /\ runner_calls = <<>>
    /\ decoder_calls = <<>>

DecodeInit ==
    /\ TrainIdle
    /\ EvalIdle
    /\ d_pc = "loop"
    /\ gt_words = NotKept
    /\ b_predictions = NotKept
    /\ f_name = NotKept
    /\ caption_log = <<>>
    /\ captions_pred = <<>>
    /\ captions_gt = <<>>
    /\ f_names = <<>>

\* one iteration of the loop of lines 65-106 on the item (g, p, n)
Iteration(g, p, n) ==
    LET r == DecodeItem(captions_pred, captions_gt, f_names, g, p, n)
    IN  /\ caption_log' = IF r.raised THEN caption_log
                          ELSE Append(caption_log, LogStrings(n, p, g))
        /\ captions_pred' = r.captions_pred
        /\ captions_gt' = r.captions_gt
        /\ f_names' = r.f_names
        /\ d_pc' = IF r.raised THEN "raised" ELSE "loop"

\* the loop, on any next item of the three input lists
DecodeIterate ==
    /\ d_pc = "loop"
    /\ Len(caption_log) < MaxItems
    /\ \E g \in LoopGroundTruths, p \in LoopPredictions, n \in FileNames :
         Iteration(g, p, n)
    /\ UNCHANGED <<gt_words, b_predictions, f_name>>
    /\ UNCHANGED <<train_vars, eval_vars>>

\* the zip is exhausted: line 113
DecodeReturn ==
    /\ d_pc = "loop"
    /\ d_pc' = "returned"
    /\ UNCHANGED <<gt_words, b_predictions, f_name, caption_log,
                   captions_pred, captions_gt, f_names>>
    /\ UNCHANGED <<train_vars, eval_vars>>

DecodeNext == DecodeIterate \/ DecodeReturn
SpecDecode == DecodeInit /\ [][DecodeNext]_vars

\* A call with one item, its tensors and path kept in the state.
DecodeOne ==
    /\ d_pc = "loop"
    /\ f_name = NotKept
    /\ \E g \in GroundTruths, p \in Predictions, n \in FileNames :
         /\ Iteration(g, p, n)
         /\ gt_words' = g
         /\ b_predictions' = p
         /\ f_name' = n
    /\ UNCHANGED <<train_vars, eval_vars>>

DecodeOneReturn ==
    /\ f_name # NotKept
    /\ DecodeReturn

CaptionNext == DecodeOne \/ DecodeOneReturn
SpecCaption == DecodeInit /\ [][CaptionNext]_vars

\* the decoder, not running
DecodeIdle ==
    /\ d_pc = "idle"
    /\ gt_words = NotKept
    /\ b_predictions = NotKept
    /\ f_name = NotKept
    /\ caption_log = <<>>
    /\ captions_pred = <<>>
    /\ captions_gt = <<>>
    /\ f_names = <<>>

Init == TrainInit /\ DecodeIdle /\ EvalIdle
Next ==
    \/ TrainEpoch /\ UNCHANGED <<decode_vars, eval_vars>>
    \/ TrainingDone /\ UNCHANGED <<decode_vars, eval_vars>>
Spec == Init /\ [][Next]_vars

\* loss_thr = 0.01
ScenarioInit ==
    /\ TrainInit
    /\ settings.loss_thr = Num(0, 1)
    /\ DecodeIdle
    /\ EvalIdle

\* the for loop of line 221, the passes producing the scenario's losses
ScenarioEpoch ==
    /\ t_pc = "loop"
    /\ epoch + 1 < settings.nb_epochs
    /\ epoch + 2 <= Len(ScenarioLosses)
    /\ \E out \in EpochOutputs :
         \E idx \in IndicesFor(epoch + 1, out) :
            EpochBody(ScenarioLosses[epoch + 2], out, idx)

ScenarioNext ==
    \/ ScenarioEpoch /\ UNCHANGED <<decode_vars, eval_vars>>
    \/ TrainingDone /\ UNCHANGED <<decode_vars, eval_vars>>
SpecScenario == ScenarioInit /\ [][ScenarioNext]_vars

(***************************************************************************)
(* The evaluation: _do_evaluation.                                         *)
(***************************************************************************)
\* The evaluation data: the i-th example of the loader comes from the file
\* <letter i>.0.n of the evaluation directory; its caption and the frozen
\* model's prediction for it are any of the loop specification's.
EvaluationSets ==
    UNION {[1..n -> [y : LoopGroundTruths, y_hat : LoopPredictions]]
              : n \in 1..MaxOutputs}
EvaluationFile(i) == <<Letters[i], ".", "0", ".", "n">>

\* list(data_path_evaluation.iterdir()): the n files of the directory, in
\* the order the file system yields them
IterDir(n) ==
    {[i \in 1..n |-> EvaluationFile(q[i] + 1)] : q \in RandPerm(n)}

\* lines 155-161: zip(ground_truth_outputs, predicted_outputs, file_names)
\* of the pass's outputs and the listing, decoded
DecodeEvaluation(outputs, listing) ==
    LET n == IF Len(listing) < Len(outputs) THEN Len(listing)
             ELSE Len(outputs)
        r == DecodeOutputs([i \in 1..n |->
                 [y_hat |-> outputs[i].y_hat, y |-> outputs[i].y,
                  f_name |-> listing[i]]])
    IN  IF r.raised THEN [raised |-> TRUE, captions_pred |-> <<>>,
                          captions_gt |-> <<>>]
        ELSE [raised |-> FALSE, captions_pred |-> r.captions_pred,
              captions_gt |-> r.captions_gt]

\* line 129: model.eval()
EvalMode == "eval"

\* the mutant of EvaluationPassArgs: the pass is given the objective and the
\* optimizer of the training
TrainingPassArgs == [objective |-> "CrossEntropyLoss", optimizer |-> "Adam"]

\* lines 151-153: objective=None, optimizer=None
EvaluationPassArgs == [objective |-> "None", optimizer |-> "None"]

\* module_epoch_passing on the parameters: without objective and optimizer
\* it is inference only, the parameters are read
EpochPassing(state, args) ==
    IF args.objective = "None" /\ args.optimizer = "None" THEN state
    ELSE TrainingPass(state)

\* lines 155-161: the arguments of the call of _decode_outputs
DecoderCall(outputs, listing) ==
    [predicted_outputs |-> [i \in 1..Len(outputs) |-> outputs[i].y_hat],
     ground_truth_outputs |-> [i \in 1..Len(outputs) |-> outputs[i].y],
     file_names |-> listing,
     print_to_console |-> FALSE]

\* the model on entry of _do_evaluation: in either mode
EvalInit ==
    /\ TrainIdle
    /\ DecodeIdle
    /\ evaluation_outputs \in EvaluationSets
    /\ dir_listing = <<>>
    /\ eval_results = <<>>
    /\ mode \in {"train", "eval"}
    /\ runner_calls = <<>>
    /\ decoder_calls = <<>>

\* one call of _do_evaluation, lines 129-168
DoEvaluation ==
    /\ Len(eval_results) < MaxRuns
    /\ mode' = EvalMode
    /\ runner_calls' = Append(runner_calls,
           [objective |-> EvaluationPassArgs.objective,
            optimizer |-> EvaluationPassArgs.optimizer,
            mode |-> EvalMode])
    /\ model' = EpochPassing(model, EvaluationPassArgs)
    /\ \E listing \in IterDir(Len(evaluation_outputs)) :
         /\ dir_listing' = listing
         /\ decoder_calls' = Append(decoder_calls,
                DecoderCall(evaluation_outputs, listing))
         /\ eval_results' = Append(eval_results,
                DecodeEvaluation(evaluation_outputs, listing))
    /\ UNCHANGED <<evaluation_outputs, decode_vars>>
    /\ UNCHANGED <<t_pc, settings, epoch, prv_training_loss, patience_counter,
                   best_epoch, training_loss, optimizer, model_dir,
                   epoch_output, sampling_indices, decoded, stop_notices,
                   state_log, decode_epochs>>

EvalNext == DoEvaluation
SpecEval == EvalInit /\ [][EvalNext]_vars

(***************************************************************************)
(* Claims about the evaluation.                                            *)
(***************************************************************************)
\* C10: two calls of _do_evaluation with the same frozen model, vocabulary
\* and evaluation set decode identical predicted and ground-truth lists,
\* whatever the order in which the directory is enumerated.
C10_EvaluationDeterministic ==
    \A i, j \in 1..Len(eval_results) : eval_results[i] = eval_results[j]

\* a step that is one call of _do_evaluation
EvaluationCalled == Len(eval_results') = Len(eval_results) + 1

\* C12: a call of _do_evaluation leaves the parameter state of the model
\* and every checkpoint file as they were, runs the pass exactly once, with
\* no objective and no optimizer and the model in evaluation mode, hands the
\* decoder all predicted and ground-truth outputs of the pass with the
\* console flag off, and returns with the model in evaluation mode.
C12_EvaluationOnlyReads ==
    [][EvaluationCalled =>
        /\ model' = model
        /\ model_dir' = model_dir
        /\ Len(runner_calls') = Len(runner_calls) + 1
        /\ SubSeq(runner_calls', 1, Len(runner_calls)) = runner_calls
        /\ LET call == runner_calls'[Len(runner_calls')]
           IN  /\ call.objective = "None"
               /\ call.optimizer = "None"
               /\ call.mode = "eval"
        /\ Len(decoder_calls') = Len(decoder_calls) + 1
        /\ LET call == decoder_calls'[Len(decoder_calls')]
               n == Len(evaluation_outputs)
           IN  /\ Len(call.predicted_outputs) = n
               /\ Len(call.ground_truth_outputs) = n
               /\ \A i \in 1..n :
                    /\ call.predicted_outputs[i] = evaluation_outputs[i].y_hat
                    /\ call.ground_truth_outputs[i] = evaluation_outputs[i].y
               /\ call.print_to_console = FALSE
        /\ mode' = "eval"
       ]_vars

\* a call on two outputs has returned: one pass, one decoder call on both
C12_Witness ==
    /\ Len(eval_results) = 1
    /\ Len(evaluation_outputs) = 2
    /\ Len(runner_calls) = 1
    /\ Len(decoder_calls) = 1
    /\ Len(decoder_calls[1].predicted_outputs) = 2
    /\ mode = "eval"
    /\ model = State(0)

\* C16: the i-th file path _do_evaluation hands to the decoder is the file
\* that the i-th predicted and ground-truth output of the pass come from,
\* and the file list is as long as the output list, so that every output is
\* decoded.
C16_FilesAligned ==
    \A k \in 1..Len(decoder_calls) :
        LET call == decoder_calls[k]
        IN  /\ Len(call.file_names) >= Len(call.predicted_outputs)
            /\ \A i \in 1..Len(call.predicted_outputs) :
                 call.file_names[i] = EvaluationFile(i)

(***************************************************************************)
(* Claims about the training loop.                                         *)
(***************************************************************************)
\* a step that ran one epoch to its end
EpochCompleted == epoch' = epoch + 1 /\ t_pc' = "loop"
\* that epoch's loss lies more than loss_thr under the previous loss
LossImproved ==
    Greater(Minus(prv_training_loss, training_loss'), settings.loss_thr)
EpochFiles == {EpochFile(n) : n \in 0..(MaxEpochs - 1)}

\* C1: once the patience counter has reached the patience limit at the end
\* of an epoch (the stop notice is logged), no later epoch is run.
C1_EarlyStopExits ==
    stop_notices # <<>> => epoch = stop_notices[1]

\* C2: an epoch is an improvement exactly when previous loss minus its mean
\* loss is strictly greater than loss_thr; after an improving epoch the
\* patience counter is 0 and the previous loss is the epoch's mean loss;
\* after any other epoch the counter is one more and the previous loss is
\* unchanged.
C2_Classification ==
    [][EpochCompleted =>
        IF LossImproved
        THEN /\ patience_counter' = 0
             /\ prv_training_loss' = training_loss'
        ELSE /\ patience_counter' = patience_counter + 1
             /\ prv_training_loss' = prv_training_loss]_vars

\* an epoch whose loss lies exactly loss_thr under the previous loss was
\* counted as no improvement
C2_Witness ==
    /\ t_pc = "loop"
    /\ patience_counter = 1
    /\ ~Minus(prv_training_loss, training_loss).neg
    /\ Minus(prv_training_loss, training_loss).mag = Double(settings.loss_thr)

\* C3: after every epoch, best_epoch is the most recent improving epoch
\* (an improving epoch sets it, any other leaves it), and once an epoch has
\* improved (prv_training_loss has left its initial value) the file
\* epoch_<best_epoch> holds the parameter state of the end of that epoch;
\* an epoch that does not improve leaves every epoch-tagged file unchanged.
C3_BestEpochTracks ==
    [][EpochCompleted =>
        /\ IF LossImproved
           THEN /\ best_epoch' = epoch'
                /\ model_dir'[EpochFile(epoch')] = model'
           ELSE /\ best_epoch' = best_epoch
                /\ \A path \in EpochFiles : model_dir'[path] = model_dir[path]
        /\ prv_training_loss' # PrvInit =>
               model_dir'[EpochFile(best_epoch')] = state_log'[best_epoch' + 1]
       ]_vars

\* the third epoch did not improve on the second: the file of epoch 1
\* holds the state of the end of epoch 1, which the model has left
C3_Witness ==
    /\ t_pc = "loop"
    /\ epoch = 2
    /\ best_epoch = 1
    /\ model_dir[EpochFile(1)] = state_log[2]
    /\ model # state_log[2]

\* C4: when _do_training returns, the parameter state of the model is the
\* state of the end of the best epoch.
C4_ReturnsBestEpochState ==
    t_pc = "returned" =>
        /\ best_epoch < Len(state_log)
        /\ model = state_log[best_epoch + 1]

\* C5: after every completed epoch the files latest and latest_optimizer
\* hold the model's and the optimizer's state of the end of that epoch, and
\* an epoch-tagged file is written in epoch n only if it is epoch_<n> and
\* epoch n is an improvement.
C5_LatestEveryEpoch ==
    [][EpochCompleted =>
        /\ model' = state_log'[epoch' + 1]
        /\ model_dir'[LatestFile("")] = model'
        /\ model_dir'[LatestFile("_optimizer")] = optimizer'
        /\ \A n \in 0..(MaxEpochs - 1) :
             model_dir'[EpochFile(n)] # model_dir[EpochFile(n)] =>
                 n = epoch' /\ LossImproved
       ]_vars

\* an epoch that did not improve has ended: both latest files hold its
\* states, and no file is tagged with it
C5_Witness ==
    /\ t_pc = "loop"
    /\ epoch = 1
    /\ patience_counter = 1
    /\ model_dir[LatestFile("")] = model
    /\ model_dir[LatestFile("_optimizer")] = optimizer
    /\ model_dir[EpochFile(1)] = Absent

\* C9: with loss_thr = 0.01 and the epoch losses 10.0, 9.5, 9.48, 9.47 the
\* epochs 0, 1 and 2 improve and epoch 3 does not: the patience counter is
\* 0 after epochs 0, 1, 2 and 1 after epoch 3, where best_epoch is 2.
C9_Scenario ==
    t_pc \in {"loop", "returned"} =>
        /\ epoch \in 0..2 => patience_counter = 0 /\ best_epoch = epoch
        /\ epoch = 3 => patience_counter = 1 /\ best_epoch = 2

\* the fourth epoch of the scenario has ended
C9_Witness ==
    /\ t_pc = "loop"
    /\ settings.loss_thr = Num(0, 1)
    /\ epoch = 3
    /\ training_loss = Num(9, 47)
    /\ prv_training_loss = Num(9, 48)
    /\ patience_counter = 1
    /\ best_epoch = 2

\* C11: a periodic decode leaves the training state alone: every epoch that
\* is started, with or without a decode, and also when a sampled ground
\* truth lacks the end-of-sequence token, ends with the previous loss, the
\* patience counter, best_epoch and the checkpoint files that the
\* improvement test and the saves of that epoch give, and the loop goes on.
C11_DecodeLeavesTraining ==
    [][epoch' = epoch + 1 =>
        /\ t_pc' = "loop"
        /\ prv_training_loss' = IF LossImproved THEN training_loss'
                                ELSE prv_training_loss
        /\ patience_counter' = IF LossImproved THEN 0
                               ELSE patience_counter + 1
        /\ best_epoch' = IF LossImproved THEN epoch' ELSE best_epoch
        /\ model_dir'[LatestFile("")] = model'
        /\ model_dir'[LatestFile("_optimizer")] = optimizer'
        /\ LossImproved => model_dir'[EpochFile(epoch')] = model'
       ]_vars

\* a step that started an epoch, and whether it called the decoder
EpochStarted == epoch' = epoch + 1
DecodeCalled == decode_epochs' # decode_epochs

\* C14: an epoch e calls the decoder exactly when e + 1 is a multiple of
\* text_output_every_nb_epochs; the sampled indices are then distinct
\* positions of that epoch's outputs, strictly increasing, as many as
\* min(nb_examples_to_sample, number of outputs), and the i-th item given
\* to the decoder is the prediction, the ground truth and the file name of
\* the i-th sampled index.
C14_PeriodicSampling ==
    [][EpochStarted =>
        /\ DecodeCalled <=>
               \E m \in 1..MaxEpochs + 1 :
                  epoch' + 1 = m * settings.text_output_every_nb_epochs
        /\ DecodeCalled =>
             LET n == Len(epoch_output')
                 nb == settings.nb_examples_to_sample
                 idx == sampling_indices'
             IN  /\ decode_epochs' = Append(decode_epochs, epoch')
                 /\ Len(idx) = IF nb < n THEN nb ELSE n
                 /\ \A i \in 1..Len(idx) : idx[i] \in 0..(n - 1)
                 /\ \A i \in 1..(Len(idx) - 1) : idx[i] < idx[i + 1]
                 /\ Len(decoded') = Len(idx)
                 /\ \A i \in 1..Len(idx) :
                      /\ decoded'[i].y_hat = epoch_output'[idx[i] + 1].y_hat
                      /\ decoded'[i].y = epoch_output'[idx[i] + 1].y
                      /\ decoded'[i].f_name = epoch_output'[idx[i] + 1].f_name
       ]_vars

\* epoch 1 decoded, every second epoch decoding: one of two outputs was
\* sampled, the second, and the decoder was given its file
C14_Witness ==
    /\ settings.text_output_every_nb_epochs = 2
    /\ settings.nb_examples_to_sample = 1
    /\ epoch = 1
    /\ decode_epochs = <<1>>
    /\ Len(epoch_output) = 2
    /\ sampling_indices = <<1>>
    /\ decoded[1].f_name = epoch_output[2].f_name

\* a step that is the reload of line 292: the loop is left and no epoch ran
BestReloaded == t_pc = "loop" /\ t_pc' # "loop" /\ epoch' = epoch

\* C15: the file epoch_<best_epoch> that the final reload reads was written
\* earlier in the same run, for every nb_epochs >= 0, loss_thr, patience
\* and sequence of epoch losses.
C15_ReloadReadsOwnCheckpoint ==
    [][BestReloaded =>
        /\ model_dir[EpochFile(best_epoch)].run = "this"
        /\ best_epoch < Len(state_log)
        /\ model_dir[EpochFile(best_epoch)] = state_log[best_epoch + 1]
       ]_vars

\* C17: a run whose epochs all complete leaves the loop after at most
\* nb_epochs epochs and ends without an error, the stop notice logged or
\* not: the reload of the best epoch's file succeeds and the run returns.
C17_EndsWithoutError ==
    [][BestReloaded =>
        /\ Len(state_log) <= settings.nb_epochs
        /\ t_pc' = "returned"
        /\ model' = model_dir[EpochFile(best_epoch)]
       ]_vars

(***************************************************************************)
(* Claims about the caption decoder.                                       *)
(***************************************************************************)
\* the words of a joined caption, and that it is words and separators
Tokens(caption) == [i \in 1..((Len(caption) + 1) \div 2) |-> caption[2 * i - 1]]
WellJoined(caption) ==
    \A i \in 1..Len(caption) : (i % 2 = 0) => caption[i] = " "

\* the file keys the call has met, and where in the input each occurs
LogKey(i) == SplitFirst(caption_log[i].stem)
KeysMet == {LogKey(i) : i \in 1..Len(caption_log)}
Occurrences(key) == {i \in 1..Len(caption_log) : LogKey(i) = key}
NthOccurrence(key, j) ==
    CHOOSE i \in Occurrences(key) :
        Cardinality({m \in Occurrences(key) : m <= i}) = j

\* C6: when a _decode_outputs call returns, the predicted list and the
\* ground-truth list each hold exactly one record per distinct file key met,
\* and the ground-truth record of a key met k times has exactly the fields
\* file_name and caption_1..caption_k, caption_i being the ground-truth
\* caption of the key's i-th occurrence.
C6_OneRecordPerKey ==
    d_pc = "returned" =>
        /\ Len(captions_pred) = Cardinality(KeysMet)
        /\ Len(captions_gt) = Cardinality(KeysMet)
        /\ {captions_pred[i].file_name : i \in 1..Len(captions_pred)} = KeysMet
        /\ {captions_gt[i][<<"file_name">>] : i \in 1..Len(captions_gt)} = KeysMet
        /\ \A i \in 1..Len(captions_gt) :
             LET d == captions_gt[i]
                 key == d[<<"file_name">>]
                 k == Cardinality(Occurrences(key))
             IN  /\ DOMAIN d = {<<"file_name">>}
                                  \cup {<<"caption_", j>> : j \in 1..k}
                 /\ \A j \in 1..k :
                      d[<<"caption_", j>>]
                          = caption_log[NthOccurrence(key, j)].original

\* the files a, b, a decoded: two predicted records, and a's ground-truth
\* record holds caption_1 and a different caption_2
C6_Witness ==
    /\ d_pc = "returned"
    /\ Len(caption_log) = 3
    /\ LogKey(1) = <<"a">> /\ LogKey(2) = <<"b">> /\ LogKey(3) = <<"a">>
    /\ caption_log[1].original # caption_log[3].original
    /\ Len(captions_pred) = 2
    /\ <<"caption_", 2>> \in DOMAIN captions_gt[1]

\* C7: the ground-truth caption of a decoded item is exactly the tokens
\* before the first end-of-sequence token of its sequence; the predicted
\* caption never holds that token: it is the tokens before the first one
\* when the prediction has one, and the whole sequence only when it has none.
C7_Truncation ==
    (f_name # NotKept /\ d_pc # "raised") =>
        LET gt == ToWords(gt_words)
            pw == ToWords(PredictedWords(b_predictions))
            g_cap == captions_gt[1][<<"caption_", 1>>]
            p_cap == captions_pred[1].caption_predicted
        IN  /\ WellJoined(g_cap) /\ WellJoined(p_cap)
            /\ EosToken \notin Range(g_cap)
            /\ EosToken \notin Range(p_cap)
            /\ \E n \in 0..(Len(gt) - 1) :
                 /\ gt[n + 1] = EosToken
                 /\ \A i \in 1..n : gt[i] # EosToken
                 /\ Tokens(g_cap) = SubSeq(gt, 1, n)
            /\ IF EosToken \in Range(pw)
               THEN \E n \in 0..(Len(pw) - 1) :
                      /\ pw[n + 1] = EosToken
                      /\ \A i \in 1..n : pw[i] # EosToken
                      /\ Tokens(p_cap) = SubSeq(pw, 1, n)
               ELSE Tokens(p_cap) = pw
            /\ caption_log[1].original = g_cap
            /\ caption_log[1].predicted = p_cap

\* an item whose ground truth and prediction both go on after the token
C7_Witness ==
    /\ d_pc = "returned"
    /\ f_name # NotKept
    /\ gt_words = <<0, 1>>
    /\ b_predictions = << <<0, 1>>, <<1, 0>> >>
    /\ captions_gt[1][<<"caption_", 1>>] = <<"w">>
    /\ captions_pred[1].caption_predicted = <<>>

\* C8: a call whose ground truth has no end-of-sequence token ends in the
\* lookup failure and returns no lists; a prediction without the token
\* raises nothing, and its whole sequence is the caption.
C8_ErrorOnlyForGroundTruth ==
    f_name # NotKept =>
        LET gt == ToWords(gt_words)
            pw == ToWords(PredictedWords(b_predictions))
        IN  /\ EosToken \notin Range(gt) =>
                 /\ d_pc = "raised"
                 /\ captions_pred = <<>> /\ captions_gt = <<>>
            /\ (EosToken \in Range(gt) /\ EosToken \notin Range(pw)) =>
                 /\ d_pc \in {"loop", "returned"}
                 /\ Len(captions_pred) = 1
                 /\ Tokens(captions_pred[1].caption_predicted) = pw

\* a ground truth of one word and no end-of-sequence token: the call raised
C8_Witness ==
    /\ d_pc = "raised"
    /\ f_name # NotKept
    /\ gt_words = <<0>>
    /\ b_predictions = << <<1, 0>> >>

\* the positions of the input where a file key appears for the first time,
\* and the k-th of them
FirstPositions ==
    {i \in 1..Len(caption_log) : \A j \in 1..(i - 1) : LogKey(j) # LogKey(i)}
KthFirstPosition(k) ==
    CHOOSE i \in FirstPositions :
        Cardinality({m \in FirstPositions : m <= i}) = k

\* C13: when a _decode_outputs call returns, the i-th record of both lists
\* carries the i-th file key in order of first appearance in the input, and
\* the predicted caption of a record is the one decoded where its key first
\* appeared, whatever was predicted at later occurrences of the key; the
\* predicted list is thereby a function of the inputs and their order.
C13_FirstAppearanceOrder ==
    d_pc = "returned" =>
        /\ Len(captions_pred) = Cardinality(FirstPositions)
        /\ Len(captions_gt) = Cardinality(FirstPositions)
        /\ \A k \in 1..Cardinality(FirstPositions) :
             LET first == KthFirstPosition(k)
             IN  /\ captions_pred[k].file_name = LogKey(first)
                 /\ captions_gt[k][<<"file_name">>] = LogKey(first)
                 /\ captions_pred[k].caption_predicted
                        = caption_log[first].predicted

\* the files a, b, a decoded, the prediction for the second a differing
\* from the first: a's record comes first and holds the first prediction
C13_Witness ==
    /\ d_pc = "returned"
    /\ Len(caption_log) = 3
    /\ LogKey(1) = <<"a">> /\ LogKey(2) = <<"b">> /\ LogKey(3) = <<"a">>
    /\ caption_log[1].predicted # caption_log[3].predicted
    /\ Len(captions_pred) = 2
    /\ captions_pred[1].file_name = <<"a">>
    /\ captions_pred[2].file_name = <<"b">>
    /\ captions_pred[1].caption_predicted = caption_log[1].predicted

====
